---- MODULE Spec2Model ----
(***************************************************************************)
(* MIRROR-sim (pymirror/mirror.py): the tick-driven kernel of a replicated *)
(* real-time database simulation.  Transactions spawn processes, processes *)
(* take locks on resource replicas under the PA_PB policy, the scheduler   *)
(* advances up to cpu_count processes per tick, and an expiry sweep reaps  *)
(* transactions whose deadline has passed.                                 *)
(*                                                                         *)
(* Python objects are modelled by handles: a process is its index in proc, *)
(* a transaction its index in tx, a resource its index in resources, a     *)
(* lock the pair <<resource, slot>>.  None is 0 for a holder and <<>> for  *)
(* a process's lock.  The functions of mirror.py are operators from a      *)
(* store (the record of all mutable objects) to the store they leave.      *)
(***************************************************************************)
EXTENDS Integers, Sequences, FiniteSets, TLC

\* Bounds of the exploration: the last tick taken, the transactions created.
MaxClock == 8
MaxTx == 4
MaxTimelineClock == 16
MaxSiblingClock == 4
MaxBacklogClock == 9
MaxBacklogTx == 6

VARIABLES
    options,        \* MirrorOptions of the run
    clock,          \* Mirror.clock
    finished,       \* Mirror.finished
    missed,         \* Mirror.missed
    started,        \* Mirror.started
    badtick,        \* Mirror._badtick
    transactions,   \* Mirror.transactions: list of live transactions
    processes,      \* Mirror.processes: heap list of <<key, process>>
    resources,      \* Mirror.resources: [copies, queue] per resource
    tx,             \* the Transaction objects ever created
    proc,           \* the Process objects ever created
    pc,             \* position inside Mirror.start_sim / Mirror.tick
    chosen,         \* the list proc of Mirror.tick still to be ticked
    picked,         \* the list proc of Mirror.tick as pick_processes returned it
    log,            \* history: the calls made by the last step, in order
    aborted,        \* history: processes that were in t.processes at t.abort()
    counted,        \* history: per transaction, the times it was counted
    preemptions,    \* history: the holders acquire has preempted so far
    report          \* the value run_test returns, once the run has ended

vars == <<options, clock, finished, missed, started, badtick, transactions,
          processes, resources, tx, proc, pc, chosen, picked, log, aborted,
          counted, preemptions, report>>

None == 0
NoLock == <<>>

\* ProcessState and the type codes Process is constructed with.
Begin == 0
Expand == 1
Contract == 2
Complete == 3
Worker == 0
Writer == 1
Updater == 2

----------------------------------------------------------------------------
\* Sequence helpers.

Range(q) == {q[i] : i \in 1..Len(q)}

Swap(q, i, j) == [q EXCEPT ![i] = q[j], ![j] = q[i]]

RemoveAt(q, i) == SubSeq(q, 1, i - 1) \o SubSeq(q, i + 1, Len(q))

Min(a, b) == IF a < b THEN a ELSE b

\* Injective sequences of length n over S: what random.sample can return.
RECURSIVE Samples(_, _)
Samples(S, n) ==
    IF n = 0 THEN {<<>>}
    ELSE UNION {{Append(q, x) : x \in S \ Range(q)} : q \in Samples(S, n - 1)}

----------------------------------------------------------------------------
\* Process properties and comparisons.

priority(s, p) == s.tx[s.proc[p].owner].deadline

is_worker(s, p) == s.proc[p].type = Worker
is_writer(s, p) == s.proc[p].type = Writer
is_updater(s, p) == s.proc[p].type = Updater

\* A writer that asks for one updater more than the other replicas need.
spawning_one_more(s, p) ==
    /\ is_writer(s, p)
    /\ s.proc[p].state = Contract
    /\ Len(s.proc[p].updaters) <= s.options.replicas - 1

spawning(s, p) ==
    /\ is_writer(s, p)
    /\ s.proc[p].state = Contract
    /\ Len(s.proc[p].updaters) < s.options.replicas - 1

blocking(s, p) ==
    \/ s.proc[p].state = Complete
    \/ s.proc[p].state # Begin /\ s.proc[p].lock = NoLock
    \/ /\ is_writer(s, p)
       /\ ~spawning(s, p)
       /\ \E i \in 1..Len(s.proc[p].updaters) :
              s.proc[s.proc[p].updaters[i]].state < Contract
    \/ is_updater(s, p) /\ s.proc[p].state >= Contract

\* Process.__eq__: same priority and same arrival.
ProcessEq(s, p, q) ==
    IF priority(s, p) = priority(s, q)
    THEN s.proc[p].arrival = s.proc[q].arrival
    ELSE FALSE

\* Process.__lt__: priority, then arrival, then state.
ProcessLt(s, p, q) ==
    IF priority(s, p) = priority(s, q)
    THEN IF s.proc[p].arrival = s.proc[q].arrival
         THEN s.proc[p].state < s.proc[q].state
         ELSE s.proc[p].arrival < s.proc[q].arrival
    ELSE priority(s, p) < priority(s, q)

\* Python's == on two items: identity first, then __eq__.
ItemEq(s, p, q) == p = q \/ ProcessEq(s, p, q)

\* == and < on the tuples (key, process) kept in the heaps.
EntryEq(s, e, f) == e[1] = f[1] /\ ItemEq(s, e[2], f[2])

EntryLt(s, e, f) ==
    IF e[1] # f[1] THEN e[1] < f[1]
    ELSE IF ItemEq(s, e[2], f[2]) THEN FALSE
    ELSE ProcessLt(s, e[2], f[2])

\* j in list, list.index(j): the first entry equal to j (0 when there is none).
FirstEntry(s, q, j) ==
    IF \E i \in 1..Len(q) : EntryEq(s, q[i], j)
    THEN CHOOSE i \in 1..Len(q) :
             /\ EntryEq(s, q[i], j)
             /\ \A k \in 1..(i - 1) : ~EntryEq(s, q[k], j)
    ELSE 0

\* p in list of processes (Transaction.processes).
ProcessIn(s, p, q) == \E i \in 1..Len(q) : ItemEq(s, q[i], p)

----------------------------------------------------------------------------
\* heapq on a list of entries; positions are 0-based as in heapq.

RECURSIVE SiftDown(_, _, _, _)
SiftDown(s, h, startpos, pos) ==
    IF pos > startpos
    THEN LET parentpos == (pos - 1) \div 2
         IN  IF EntryLt(s, h[pos + 1], h[parentpos + 1])
             THEN SiftDown(s, Swap(h, pos + 1, parentpos + 1), startpos, parentpos)
             ELSE h
    ELSE h

\* The first loop of _siftup: the item sinks to a leaf along the smaller children.
RECURSIVE SinkToLeaf(_, _, _)
RECURSIVE SinkTo(_, _, _, _)

\* The smaller child is moved up to pos and the loop goes on from c.
SinkTo(s, h, pos, c) == SinkToLeaf(s, Swap(h, pos + 1, c + 1), c)

SinkToLeaf(s, h, pos) ==
    LET childpos == 2 * pos + 1
        rightpos == childpos + 1
    IN  IF childpos < Len(h)
        THEN SinkTo(s, h, pos,
                    IF rightpos < Len(h)
                       /\ ~EntryLt(s, h[childpos + 1], h[rightpos + 1])
                    THEN rightpos ELSE childpos)
        ELSE <<h, pos>>

\* The end of _siftup: from the leaf r[2] the item bubbles up in r[1].
BubbleUp(s, r, pos) == SiftDown(s, r[1], pos, r[2])

SiftUp(s, h, pos) == BubbleUp(s, SinkToLeaf(s, h, pos), pos)

heappush(s, h, e) == SiftDown(s, Append(h, e), 0, Len(h))

\* list.pop() in the place of heappop: the last entry of the list is taken.
heappop_last(s, h) == <<h[Len(h)], SubSeq(h, 1, Len(h) - 1)>>

\* heappop: <<the popped entry, the heap left>>.
heappop(s, h) ==
    LET lastelt == h[Len(h)]
        rest == SubSeq(h, 1, Len(h) - 1)
    IN  IF rest = <<>> THEN <<lastelt, rest>>
        ELSE <<rest[1], SiftUp(s, [rest EXCEPT ![1] = lastelt], 0)>>

RECURSIVE HeapifyFrom(_, _, _)
HeapifyFrom(s, h, i) ==
    IF i < 0 THEN h ELSE HeapifyFrom(s, SiftUp(s, h, i), i - 1)

heapify(s, h) == HeapifyFrom(s, h, (Len(h) \div 2) - 1)

----------------------------------------------------------------------------
\* The history of calls: one record per call, appended to s.log.

\* kind: the call; t, p: the transaction and process it is about; h: the other
\* process involved (the holder preempted or released from, the entry removed);
\* r, slot: the lock; n: the state p had before complete(), the number of
\* listed processes not Complete when the transaction was counted, or the
\* number of waiters left behind that were more urgent than the one popped.
Ev(kind, t, p, h, r, slot, n) ==
    [kind |-> kind, t |-> t, p |-> p, h |-> h, r |-> r, slot |-> slot, n |-> n]

Logged(s, e) == [s EXCEPT !.log = Append(@, e)]

----------------------------------------------------------------------------
\* Mirror.pa_pb: TRUE when the holder should be aborted for the requestor.

\* pa_pb without the protection of updaters and of the commit phase.
pa_pb_unprotected(s, holder, requestor) ==
    priority(s, holder) < priority(s, requestor)

pa_pb(s, holder, requestor) ==
    IF is_updater(s, holder)
    THEN IF s.proc[holder].lock = NoLock
         THEN priority(s, holder) < priority(s, requestor)
         ELSE FALSE
    ELSE IF s.proc[holder].state >= Contract THEN FALSE
    ELSE priority(s, holder) < priority(s, requestor)

----------------------------------------------------------------------------
\* Resource.release

\* The entries of queue q whose process comes before np by deadline, then
\* by arrival.
MoreUrgent(s, q, np) ==
    {i \in 1..Len(q) :
        \/ priority(s, q[i][2]) < priority(s, np)
        \/ /\ priority(s, q[i][2]) = priority(s, np)
           /\ s.proc[q[i][2]].arrival < s.proc[np].arrival}

\* release that leaves the lock free whatever the queue holds.
LeaveIdle(s, r, p, c, popped) ==
    Logged([s EXCEPT !.resources[r].copies[c] = None],
           Ev("free", s.proc[p].owner, p, None, r, c, 0))

\* Pass the lock c of r, released by p, to the process of the popped entry.
Handoff(s, r, p, c, popped) ==
    Logged([s EXCEPT !.resources[r].queue = popped[2],
                     !.proc[popped[1][2]].lock = <<r, c>>,
                     !.resources[r].copies[c] = popped[1][2]],
           Ev("handoff", s.proc[popped[1][2]].owner, popped[1][2], p, r, c,
              Cardinality(MoreUrgent(s, popped[2], popped[1][2]))))

\* A release that, finding no entry of the process, removes the head of the
\* queue instead of returning.
DequeueHead(s, r, p, i) ==
    IF Len(s.resources[r].queue) = 0 THEN s
    ELSE Logged([s EXCEPT !.resources[r].queue =
                              heapify(s, RemoveAt(s.resources[r].queue,
                                                  IF i = 0 THEN 1 ELSE i))],
                Ev("dequeue", s.proc[p].owner, p,
                   s.resources[r].queue[IF i = 0 THEN 1 ELSE i][2], r, 0, 0))

\* self.queue.remove(j); heapify(self.queue), for the entry at index i.
Dequeue(s, r, p, i) ==
    IF i = 0 THEN s
    ELSE Logged([s EXCEPT !.resources[r].queue =
                              heapify(s, RemoveAt(s.resources[r].queue, i))],
                Ev("dequeue", s.proc[p].owner, p, s.resources[r].queue[i][2], r, 0, 0))

release(s, r, p) ==
    LET R == s.resources[r]
        held == {i \in 1..Len(R.copies) : R.copies[i] = p}
    IN  IF held # {}
        THEN LET c == CHOOSE i \in held : \A k \in held : i <= k
                 s1 == [s EXCEPT !.proc[p].lock = NoLock]
             IN  IF Len(R.queue) < 1
                 THEN Logged([s1 EXCEPT !.resources[r].copies[c] = None],
                             Ev("free", s.proc[p].owner, p, None, r, c, 0))
                 ELSE Handoff(s1, r, p, c, heappop(s1, R.queue))
        ELSE Dequeue(s, r, p, FirstEntry(s, R.queue, <<priority(s, p), p>>))

----------------------------------------------------------------------------
\* Mirror.transaction_finish

\* transaction_finish without the check that t is still live.
transaction_finish_unguarded(s, t, miss) ==
    LET s1 == IF miss THEN [s EXCEPT !.missed = @ + 1]
              ELSE [s EXCEPT !.finished = @ + 1]
    IN  Logged([s1 EXCEPT !.transactions = SelectSeq(@, LAMBDA x : x # t),
                          !.counted[t] = IF miss THEN [@ EXCEPT !.missed = @ + 1]
                                         ELSE [@ EXCEPT !.finished = @ + 1]],
               Ev(IF miss THEN "miss" ELSE "finish", t, None, None, None, 0,
                  Cardinality({k \in 1..Len(s.tx[t].processes) :
                      s.proc[s.tx[t].processes[k]].state # Complete})))

transaction_finish(s, t, miss) ==
    IF t \notin Range(s.transactions)
    THEN Logged(s, Ev("ignored", t, None, None, None, 0, 0))
    ELSE LET i == CHOOSE k \in 1..Len(s.transactions) :
                      /\ s.transactions[k] = t
                      /\ \A m \in 1..(k - 1) : s.transactions[m] # t
             s1 == IF miss THEN [s EXCEPT !.missed = @ + 1]
                   ELSE [s EXCEPT !.finished = @ + 1]
         IN  Logged([s1 EXCEPT !.transactions = RemoveAt(@, i),
                               !.counted[t] = IF miss THEN [@ EXCEPT !.missed = @ + 1]
                                               ELSE [@ EXCEPT !.finished = @ + 1]],
                    Ev(IF miss THEN "miss" ELSE "finish", t, None, None, None, 0,
                       Cardinality({k \in 1..Len(s.tx[t].processes) :
                           s.proc[s.tx[t].processes[k]].state # Complete})))

----------------------------------------------------------------------------
\* Process.complete, Process.release_all, Transaction.commit, Mirror.remove_job
\* call each other.

RECURSIVE complete(_, _)
RECURSIVE release_all(_, _)
RECURSIVE ReleaseUpdaters(_, _, _)
RECURSIVE commit(_, _, _)
RECURSIVE remove_job(_, _)

complete(s, p) ==
    commit(release_all(Logged([s EXCEPT !.proc[p].state = Complete],
                              Ev("complete", s.proc[p].owner, p, None,
                                 s.proc[p].target, 0, s.proc[p].state)),
                       p),
           s.proc[p].owner, p)

\* The loop of release_all without u.complete(): the updaters are released
\* and left in the state they have.
RECURSIVE ReleaseUpdatersOnly(_, _, _)
ReleaseUpdatersOnly(s, p, i) ==
    IF i > Len(s.proc[p].updaters) THEN s
    ELSE ReleaseUpdatersOnly(release(s, s.proc[p].target, s.proc[p].updaters[i]),
                             p, i + 1)

\* The loop of release_all over self.updaters, from the i-th on.
ReleaseUpdaters(s, p, i) ==
    IF i > Len(s.proc[p].updaters) THEN s
    ELSE ReleaseUpdaters(complete(release(s, s.proc[p].target, s.proc[p].updaters[i]),
                                  s.proc[p].updaters[i]),
                         p, i + 1)

release_all(s, p) == ReleaseUpdaters(release(s, s.proc[p].target, p), p, 1)

\* q is another process than p, not Complete, in the current list of a
\* transaction that is live.
Bystander(s, p, q) ==
    /\ q # p
    /\ s.proc[q].state # Complete
    /\ s.proc[q].owner \in Range(s.transactions)
    /\ q \in Range(s.tx[s.proc[q].owner].processes)

\* self.processes.remove(j); heapify(self.processes), for the entry at index i.
Unschedule(s, p, i) ==
    IF i = 0 THEN s
    ELSE Logged([s EXCEPT !.processes = heapify(s, RemoveAt(s.processes, i))],
                Ev("unschedule", s.proc[p].owner, p, s.processes[i][2], None, 0,
                   IF Bystander(s, p, s.processes[i][2]) THEN 1 ELSE 0))

\* remove_job after p.release_all(): j = (p.priority, p) is looked up.
RemoveEntry(s, p) ==
    Unschedule(s, p, FirstEntry(s, s.processes, <<priority(s, p), p>>))

remove_job(s, p) == RemoveEntry(release_all(s, p), p)

\* The test of commit with any() in the place of all().
AnyComplete(s, t) ==
    \E i \in 1..Len(s.tx[t].processes) : s.proc[s.tx[t].processes[i]].state = Complete

\* all([i.state == 3 for i in self.processes])
AllComplete(s, t) ==
    \A i \in 1..Len(s.tx[t].processes) : s.proc[s.tx[t].processes[i]].state = Complete

\* The end of commit, after remove_job(p).
FinishIfComplete(s, t) ==
    IF AllComplete(s, t) THEN transaction_finish(s, t, FALSE) ELSE s

commit(s, t, p) ==
    IF s.clock > s.tx[t].deadline THEN transaction_finish(s, t, TRUE)
    ELSE IF ~ProcessIn(s, p, s.tx[t].processes) THEN s
    ELSE FinishIfComplete(remove_job(s, p), t)

----------------------------------------------------------------------------
\* Process construction and Mirror.submit_job

\* Process.__init__: the new process is the last of s.proc.
NewProcess(s, owner, target, length, type) ==
    [s EXCEPT !.proc = Append(@,
        [owner |-> owner, arrival |-> s.clock, length |-> length, progress |-> 0,
         type |-> type, state |-> Begin, target |-> target, updaters |-> <<>>,
         lock |-> NoLock])]

submit_job(s, p) ==
    [s EXCEPT !.processes = heappush(s, @, <<priority(s, p), p>>)]

\* Process.spawn_updater
spawn_updater(s, p) ==
    submit_job([NewProcess(s, s.proc[p].owner, s.proc[p].target,
                           s.options.write_time, Updater)
                   EXCEPT !.proc[p].updaters = Append(@, Len(s.proc) + 1)],
               Len(s.proc) + 1)

----------------------------------------------------------------------------
\* Transaction.spawn_processes, abort, restart, begin; Mirror.create_transaction.
\* draws[i] holds the two random.random() outcomes for the i-th resource:
\* unbuffered (the draw exceeds buffered_chance) and writer (the draw is below
\* write_chance).

RECURSIVE SpawnFrom(_, _, _, _)
SpawnFrom(s, t, draws, i) ==
    IF i > Len(s.tx[t].dependencies) THEN s
    ELSE LET r == s.tx[t].dependencies[i]
             base == IF draws[i].unbuffered THEN s.options.access_time
                     ELSE s.options.buffered_time
             plen == IF draws[i].writer THEN base + s.options.write_time ELSE base
             p == Len(s.proc) + 1
         IN  SpawnFrom(submit_job(
                           [NewProcess(s, t, r, plen,
                                       IF draws[i].writer THEN Writer ELSE Worker)
                               EXCEPT !.tx[t].processes = Append(@, p)],
                           p),
                       t, draws, i + 1)

spawn_processes(s, t, draws) == SpawnFrom(s, t, draws, 1)

\* The loop of abort over self.processes, from the i-th on.
RECURSIVE AbortFrom(_, _, _)
AbortFrom(s, t, i) ==
    IF i > Len(s.tx[t].processes) THEN s
    ELSE AbortFrom(remove_job(s, s.tx[t].processes[i]), t, i + 1)

abort(s, t) ==
    [AbortFrom(Logged(s, Ev("abort", t, None, None, None, 0, 0)), t, 1)
        EXCEPT !.tx[t].processes = <<>>,
               !.aborted = @ \cup Range(s.tx[t].processes)]

\* A restart that spawns the processes again whatever the clock.
RespawnAlways(s, t, draws) == spawn_processes(s, t, draws)

\* The end of restart, after abort().
Respawn(s, t, draws) ==
    IF s.clock <= s.tx[t].deadline THEN spawn_processes(s, t, draws) ELSE s

restart(s, t, draws) ==
    Respawn(abort(Logged(s, Ev("restart", t, None, None, None, 0, 0)), t), t, draws)

RECURSIVE SumSeq(_, _)
SumSeq(f, n) == IF n = 0 THEN 0 ELSE f[n] + SumSeq(f, n - 1)

\* A deadline extended by the lengths the processes drew.
ExtendByLength(s, t) ==
    LET ps == s.tx[t].processes
        drawn == [i \in 1..Len(ps) |-> s.proc[ps[i]].length]
    IN  [s EXCEPT !.tx[t].deadline =
                      @ + SumSeq(drawn, Len(ps)) * s.options.deadline_slack]

\* The end of begin, after spawn_processes(): the deadline is extended by
\* the expected length of each process.
ExtendDeadline(s, t) ==
    LET ps == s.tx[t].processes
        expected == [i \in 1..Len(ps) |->
                        s.options.access_time
                        + (IF is_writer(s, ps[i]) THEN s.options.write_time ELSE 0)]
    IN  [s EXCEPT !.tx[t].deadline =
                      @ + SumSeq(expected, Len(ps)) * s.options.deadline_slack]

begin(s, t, sample, draws) ==
    ExtendDeadline(spawn_processes([s EXCEPT !.tx[t].deadline = s.tx[t].arrival,
                                             !.tx[t].dependencies = sample],
                                   t, draws),
                   t)

create_transaction(s, sample, draws) ==
    begin([s EXCEPT !.tx = Append(@, [arrival |-> s.clock, deadline |-> -1,
                                      processes |-> <<>>, dependencies |-> <<>>]),
                    !.counted = Append(@, [finished |-> 0, missed |-> 0]),
                    !.transactions = Append(@, Len(s.tx) + 1),
                    !.started = @ + 1],
          Len(s.tx) + 1, sample, draws)

----------------------------------------------------------------------------
\* Resource.acquire

\* The first lock without a holder (0 when every lock is held).
FreeSlot(s, r) ==
    LET free == {i \in 1..Len(s.resources[r].copies) : s.resources[r].copies[i] = None}
    IN  IF free = {} THEN 0 ELSE CHOOSE i \in free : \A k \in free : i <= k

\* The first lock whose holder the policy aborts for p (0 when there is none).
VictimSlot(s, r, p) ==
    LET pa == {i \in 1..Len(s.resources[r].copies) :
                  pa_pb(s, s.resources[r].copies[i], p)}
    IN  IF pa = {} THEN 0 ELSE CHOOSE i \in pa : \A k \in pa : i <= k

Bind(s, r, c, p) ==
    [s EXCEPT !.proc[p].lock = <<r, c>>, !.resources[r].copies[c] = p]

\* The holder of lock c is restarted and p is bound to c.
Preempt(s, r, c, p, draws) ==
    Bind(restart(Logged([s EXCEPT !.preemptions = @ + 1],
                        Ev("acquire_pa", s.proc[p].owner, p,
                           s.resources[r].copies[c], r, c, 0)),
                 s.proc[s.resources[r].copies[c]].owner, draws),
         r, c, p)

acquire(s, r, p, draws) ==
    IF FreeSlot(s, r) # 0
    THEN Logged(Bind(s, r, FreeSlot(s, r), p),
                Ev("acquire_free", s.proc[p].owner, p, None, r, FreeSlot(s, r), 0))
    ELSE IF VictimSlot(s, r, p) # 0
    THEN Preempt(s, r, VictimSlot(s, r, p), p, draws)
    ELSE Logged([s EXCEPT !.resources[r].queue = heappush(s, @, <<priority(s, p), p>>)],
                Ev("acquire_pb", s.proc[p].owner, p, None, r, 0, 0))

----------------------------------------------------------------------------
\* Process.ready and Process.tick

RECURSIVE SpawnAll(_, _)
SpawnAll(s, p) == IF spawning(s, p) THEN SpawnAll(spawn_updater(s, p), p) ELSE s

ready(s, p) ==
    LET s1 == [s EXCEPT !.proc[p].state = Contract]
    IN  IF is_worker(s1, p) THEN complete(s1, p)
        ELSE IF is_writer(s1, p)
        THEN IF ~spawning(s1, p) THEN complete(s1, p)
             ELSE IF s1.options.spawn_time < 1 THEN SpawnAll(s1, p)
             ELSE [s1 EXCEPT !.proc[p].length = @ + s1.options.spawn_time]
        ELSE s1

\* tick below Contract, once the lock has been asked for: progress while the
\* lock is held.
Work(s, p) ==
    IF s.proc[p].lock # NoLock
    THEN LET s2 == [s EXCEPT !.proc[p].progress = @ + 1]
         IN  IF s2.proc[p].progress >= s2.proc[p].length
             THEN ready(s2, p)
             ELSE s2
    ELSE s

\* tick of a spawning writer, after spawn_updater(): more time when another
\* updater is due.
SpawnNext(s, p) ==
    IF spawning(s, p)
    THEN [s EXCEPT !.proc[p].length = @ + s.options.spawn_time]
    ELSE s

tick(s, p, draws) ==
    IF s.proc[p].state < Contract
    THEN Work(IF s.proc[p].state = Begin
              THEN [acquire(s, s.proc[p].target, p, draws)
                       EXCEPT !.proc[p].state = Expand]
              ELSE s,
              p)
    ELSE IF spawning(s, p)
    THEN LET s1 == [s EXCEPT !.proc[p].progress = @ + 1]
         IN  IF s1.proc[p].progress >= s1.proc[p].length
             THEN SpawnNext(spawn_updater(s1, p), p)
             ELSE s1
    ELSE IF is_writer(s, p)
    THEN IF \E i \in 1..Len(s.proc[p].updaters) :
                s.proc[s.proc[p].updaters[i]].state < Contract
         THEN s
         ELSE complete(s, p)
    ELSE s

----------------------------------------------------------------------------
\* Mirror.pick_processes and the expiry loop of Mirror.tick

\* A selection that is not cut to the number of CPUs.
pick_every(s, num) ==
    LET ready_ == SelectSeq(s.processes,
                     LAMBDA e : s.proc[e[2]].state = Begin \/ ~blocking(s, e[2]))
    IN  [i \in 1..Len(ready_) |-> ready_[i][2]]

pick_processes(s, num) ==
    LET ready_ == SelectSeq(s.processes,
                     LAMBDA e : s.proc[e[2]].state = Begin \/ ~blocking(s, e[2]))
        all == [i \in 1..Len(ready_) |-> ready_[i][2]]
    IN  SubSeq(all, 1, Min(num, Len(all)))

\* for t in self.transactions: the list iterator is at index i (0-based) of
\* the list as it is now; removing an entry during the loop shifts the rest.
\* A tick without the expiry sweep.
ExpireNone(s, i) == s

RECURSIVE ExpireFrom(_, _)
ExpireFrom(s, i) ==
    IF i >= Len(s.transactions) THEN s
    ELSE LET t == s.transactions[i + 1]
         IN  IF s.clock > s.tx[t].deadline
             THEN ExpireFrom(transaction_finish(abort(s, t), t, TRUE), i + 1)
             ELSE ExpireFrom(s, i + 1)

----------------------------------------------------------------------------
\* The runs explored: MirrorOptions scaled to a few ticks.  Probabilities are
\* in percent.

\* One resource with a single replica, more CPUs than processes: lock conflicts
\* between transactions, priority abort, blocking queue.
OneResource ==
    [db_size |-> 1, replicas |-> 1, cpu_count |-> 3, sim_size |-> 3,
     access_time |-> 3, buffered_time |-> 3, buffered_chance |-> 100,
     write_time |-> 1, spawn_time |-> 1, arrival_rate |-> 16,
     deadline_slack |-> 2, transaction_size |-> <<1, 1>>, write_chance |-> 50]

\* One CPU and tight deadlines: processes wait for the CPU and transactions
\* expire.
SingleCpu ==
    [db_size |-> 1, replicas |-> 1, cpu_count |-> 1, sim_size |-> 3,
     access_time |-> 2, buffered_time |-> 1, buffered_chance |-> 50,
     write_time |-> 1, spawn_time |-> 1, arrival_rate |-> 16,
     deadline_slack |-> 1, transaction_size |-> <<1, 1>>, write_chance |-> 50]

\* Two replicas: writers spawn an updater.
Replicated ==
    [db_size |-> 1, replicas |-> 2, cpu_count |-> 2, sim_size |-> 3,
     access_time |-> 1, buffered_time |-> 1, buffered_chance |-> 100,
     write_time |-> 1, spawn_time |-> 1, arrival_rate |-> 16,
     deadline_slack |-> 2, transaction_size |-> <<1, 1>>, write_chance |-> 50]

\* Two resources, two processes per transaction.
TwoResources ==
    [db_size |-> 2, replicas |-> 1, cpu_count |-> 2, sim_size |-> 3,
     access_time |-> 2, buffered_time |-> 1, buffered_chance |-> 100,
     write_time |-> 1, spawn_time |-> 1, arrival_rate |-> 16,
     deadline_slack |-> 1, transaction_size |-> <<2, 2>>, write_chance |-> 0]

\* Two resources, two workers per transaction that take 2 or 3 ticks, a CPU
\* for each: a transaction is preempted and restarted while the other runs.
Siblings ==
    [db_size |-> 2, replicas |-> 1, cpu_count |-> 4, sim_size |-> 2,
     access_time |-> 3, buffered_time |-> 2, buffered_chance |-> 50,
     write_time |-> 1, spawn_time |-> 1, arrival_rate |-> 16,
     deadline_slack |-> 1, transaction_size |-> <<2, 2>>, write_chance |-> 0]

Configs == {OneResource, SingleCpu, Replicated, TwoResources}

\* Two resources and two CPUs for transactions of one or two writers that
\* take two ticks each: arrivals outrun the CPUs, and a process can wait in
\* Begin until its transaction has expired.
Backlog ==
    [db_size |-> 2, replicas |-> 1, cpu_count |-> 2, sim_size |-> 6,
     access_time |-> 2, buffered_time |-> 1, buffered_chance |-> 100,
     write_time |-> 1, spawn_time |-> 1, arrival_rate |-> 16,
     deadline_slack |-> 1, transaction_size |-> <<1, 2>>, write_chance |-> 100]

\* The set-up of writer() in test.py: two replicas, one CPU, and every
\* transaction a single writer of length 8 + write_time = 10.
LoneWriter ==
    [db_size |-> 1, replicas |-> 2, cpu_count |-> 1, sim_size |-> 1,
     access_time |-> 8, buffered_time |-> 8, buffered_chance |-> 100,
     write_time |-> 2, spawn_time |-> 1, arrival_rate |-> 16,
     deadline_slack |-> 2, transaction_size |-> <<1, 1>>, write_chance |-> 100]

\* Four replicas and updaters spawned at once: every transaction is a single
\* writer of length 1 + write_time = 2, and there is a CPU for each process.
FullyReplicated ==
    [db_size |-> 1, replicas |-> 4, cpu_count |-> 4, sim_size |-> 1,
     access_time |-> 1, buffered_time |-> 1, buffered_chance |-> 100,
     write_time |-> 1, spawn_time |-> 0, arrival_rate |-> 16,
     deadline_slack |-> 3, transaction_size |-> <<1, 1>>, write_chance |-> 100]

\* Two replicas contended by writers that stay in Expand for several ticks:
\* every transaction is a single writer of length 3 + write_time = 4, and
\* there is a CPU for each process.
Contended ==
    [db_size |-> 1, replicas |-> 2, cpu_count |-> 4, sim_size |-> 3,
     access_time |-> 3, buffered_time |-> 3, buffered_chance |-> 100,
     write_time |-> 1, spawn_time |-> 0, arrival_rate |-> 16,
     deadline_slack |-> 3, transaction_size |-> <<1, 1>>, write_chance |-> 100]

Timelines == {LoneWriter, FullyReplicated, Contended}

\* The outcomes random.random() < chance and random.random() > chance can
\* have: random() lies in [0, 1).
CoinBelow(chance) ==
    IF chance <= 0 THEN {FALSE} ELSE IF chance >= 100 THEN {TRUE} ELSE BOOLEAN

CoinAbove(chance) ==
    IF chance < 0 THEN {TRUE} ELSE IF chance >= 100 THEN {FALSE} ELSE BOOLEAN

\* Mirror._chance = poisson(arrival_rate / 1000, 1) lies strictly between 0
\* and 1 for a positive rate and is 0 for rate 0.
ArrivalOutcomes(o) == IF o.arrival_rate > 0 THEN BOOLEAN ELSE {FALSE}

Draws(o) ==
    [unbuffered : CoinAbove(o.buffered_chance), writer : CoinBelow(o.write_chance)]

DrawSeqs(o, n) == [1..n -> Draws(o)]

----------------------------------------------------------------------------
\* run_test of generate_data.py

\* The attributes Mirror.__init__ gives a Mirror; no method assigns another.
MirrorAttributes ==
    {"options", "clock", "finished", "missed", "started", "transactions", "cpus",
     "resources", "processes", "method", "_badtick", "_chance", "_pbar"}

\* The dictionary run_test returns for the mirror s, or the exception its
\* read of mirror.aborts raises.
run_test(s) ==
    IF "aborts" \in MirrorAttributes
    THEN [raised |-> "", returned |-> TRUE, cycles |-> s.clock,
          num_finished |-> s.finished, num_missed |-> s.missed,
          idle_cycles |-> s.badtick, cc_aborts |-> s["aborts"]]
    ELSE [raised |-> "AttributeError", returned |-> FALSE]

----------------------------------------------------------------------------
\* The state as a store, and back.

Store ==
    [options |-> options, clock |-> clock, finished |-> finished,
     missed |-> missed, started |-> started, badtick |-> badtick,
     transactions |-> transactions, processes |-> processes,
     resources |-> resources, tx |-> tx, proc |-> proc, log |-> <<>>,
     aborted |-> aborted, counted |-> counted, preemptions |-> preemptions]

Install(s) ==
    /\ options' = s.options
    /\ clock' = s.clock
    /\ finished' = s.finished
    /\ missed' = s.missed
    /\ started' = s.started
    /\ badtick' = s.badtick
    /\ transactions' = s.transactions
    /\ processes' = s.processes
    /\ resources' = s.resources
    /\ tx' = s.tx
    /\ proc' = s.proc
    /\ log' = s.log
    /\ aborted' = s.aborted
    /\ counted' = s.counted
    /\ preemptions' = s.preemptions
    /\ report' = report

\* Mirror.__init__ followed by the set-up of start_sim.
Start(o) ==
    /\ options = o
    /\ clock = 0
    /\ finished = 0
    /\ missed = 0
    /\ started = 0
    /\ badtick = 0
    /\ transactions = <<>>
    /\ processes = <<>>
    /\ resources = [r \in 1..options.db_size |->
                       [copies |-> [i \in 1..options.replicas |-> None],
                        queue |-> <<>>]]
    /\ tx = <<>>
    /\ proc = <<>>
    /\ pc = "tick"
    /\ chosen = <<>>
    /\ picked = <<>>
    /\ log = <<>>
    /\ aborted = {}
    /\ counted = <<>>
    /\ preemptions = 0
    /\ report = [raised |-> "", returned |-> FALSE]

Init == \E o \in Configs : Start(o)

\* The runs of the timelines last longer than the others.
TimelineInit == \E o \in Timelines : Start(o)

\* The runs with sibling processes branch more and are kept shorter.
SiblingInit == Start(Siblings)

BacklogInit == Start(Backlog)

Horizon ==
    IF options \in Timelines THEN MaxTimelineClock
    ELSE IF options = Siblings THEN MaxSiblingClock
    ELSE IF options = Backlog THEN MaxBacklogClock
    ELSE MaxClock

\* The number of transactions the exploration creates.
Arrivals == IF options = Backlog THEN MaxBacklogTx ELSE MaxTx

----------------------------------------------------------------------------
\* Mirror.tick, one action per part: the clock and the expiry sweep, the
\* arrival coin with the selection, and the tick of each selected process.

Expire ==
    /\ pc = "tick"
    /\ finished + missed < options.sim_size
    /\ clock < Horizon
    /\ Install(ExpireFrom([Store EXCEPT !.clock = @ + 1], 0))
    /\ pc' = "arrive"
    /\ chosen' = <<>>
    /\ picked' = <<>>

\* proc = self.pick_processes(cpu_count); an empty selection ends the tick
\* as a bad tick.
Select(s) ==
    LET sel == pick_processes(s, s.options.cpu_count)
    IN  /\ picked' = sel
        /\ chosen' = sel
        /\ IF sel = <<>>
           THEN Install([s EXCEPT !.badtick = @ + 1]) /\ pc' = "tick"
           ELSE Install(s) /\ pc' = "run"

Arrival ==
    /\ pc = "arrive"
    /\ TRUE \in ArrivalOutcomes(options)
    /\ started < Arrivals
    /\ \E size \in options.transaction_size[1]..options.transaction_size[2] :
          \E sample \in Samples(1..options.db_size, size) :
             \E draws \in DrawSeqs(options, size) :
                Select(create_transaction(Store, sample, draws))

NoArrival ==
    /\ pc = "arrive"
    /\ FALSE \in ArrivalOutcomes(options)
    /\ Select(Store)

\* The draws a preemption by p hands to restart: one for each dependency of
\* the transaction of the victim (restart uses them when it re-spawns).
RespawnCount(s, p) ==
    IF s.proc[p].state = Begin
       /\ FreeSlot(s, s.proc[p].target) = 0
       /\ VictimSlot(s, s.proc[p].target, p) # 0
    THEN LET h == s.resources[s.proc[p].target].copies[VictimSlot(s, s.proc[p].target, p)]
             t == s.proc[h].owner
         IN  Len(s.tx[t].dependencies)
    ELSE 0

Advance ==
    /\ pc = "run"
    /\ \E draws \in DrawSeqs(options, RespawnCount(Store, Head(chosen))) :
          Install(tick(Store, Head(chosen), draws))
    /\ chosen' = Tail(chosen)
    /\ picked' = picked
    /\ pc' = IF Tail(chosen) = <<>> THEN "tick" ELSE "run"

\* The loop of start_sim ends.
Stop ==
    /\ pc = "tick"
    /\ finished + missed >= options.sim_size
    /\ pc' = "done"
    /\ UNCHANGED <<options, clock, finished, missed, started, badtick,
                   transactions, processes, resources, tx, proc, chosen, picked,
                   log, aborted, counted, preemptions, report>>

\* run_test, after mirror.start_sim() has returned: the dictionary is built.
Report ==
    /\ pc = "done"
    /\ report' = run_test(Store)
    /\ pc' = "reported"
    /\ UNCHANGED <<options, clock, finished, missed, started, badtick,
                   transactions, processes, resources, tx, proc, chosen, picked,
                   log, aborted, counted, preemptions>>

Next == Expire \/ Arrival \/ NoArrival \/ Advance \/ Stop \/ Report

Spec == Init /\ [][Next]_vars

TimelineSpec == TimelineInit /\ [][Next]_vars

SiblingSpec == SiblingInit /\ [][Next]_vars

BacklogSpec == BacklogInit /\ [][Next]_vars

\* The guards of Expire and of Advance.
ExpireEnabled ==
    pc = "tick" /\ finished + missed < options.sim_size /\ clock < Horizon

AdvanceEnabled == pc = "run"

\* start_sim is a sequential loop: while its condition holds the next tick
\* is run, every part of a tick is followed by the next, and the return of
\* start_sim by the rest of run_test.  The last two conjuncts are
\* WF_vars(Expire) and WF_vars(Advance) with ENABLED written as the guard.
LiveSpec ==
    /\ Init /\ [][Next]_vars
    /\ WF_vars(NoArrival) /\ WF_vars(Stop) /\ WF_vars(Report)
    /\ ([]<>(~ExpireEnabled) \/ []<><<Expire>>_vars)
    /\ ([]<>(~AdvanceEnabled) \/ []<><<Advance>>_vars)

\* Between two ticks of the simulation (and after the last).
TickBoundary == pc \in {"tick", "done"}

----------------------------------------------------------------------------
\* Vocabulary of the properties.

Procs == 1..Len(proc)
Txs == 1..Len(tx)
Res == 1..Len(resources)
Slots(r) == 1..Len(resources[r].copies)

Deadline(p) == tx[proc[p].owner].deadline
Holders(r) == {resources[r].copies[c] : c \in Slots(r)} \ {None}
QueueOf(r) == {resources[r].queue[i][2] : i \in 1..Len(resources[r].queue)}
Scheduled == {processes[i][2] : i \in 1..Len(processes)}
Live == Range(transactions)
Events == Range(log)

\* The step about to be taken ticks q, which is in Begin: it calls
\* q.target.acquire(q) on the state as it is now.
AcquireCall(q) == pc = "run" /\ chosen # <<>> /\ Head(chosen) = q /\ proc[q].state = Begin

AllHeld(r) == \A c \in Slots(r) : resources[r].copies[c] # None

\* Processes that were in a transaction's list when it was aborted, and
\* their updaters.
AbortedOrUpdater ==
    aborted \cup UNION {Range(proc[p].updaters) : p \in aborted}

----------------------------------------------------------------------------
\* C1: at every tick boundary, every lock slot is the lock of at most one
\* process.
C1_MutualExclusion ==
    TickBoundary =>
        \A r \in Res : \A c \in Slots(r) :
            Cardinality({p \in Procs : proc[p].lock = <<r, c>>}) <= 1

\* C2: at every tick boundary, l.holder == p if and only if p.lock == l, for
\* every lock l and process p.
C2_BackReference ==
    TickBoundary =>
        \A r \in Res : \A c \in Slots(r) : \A p \in Procs :
            (resources[r].copies[c] = p) <=> (proc[p].lock = <<r, c>>)

\* C3: when every lock of the target is held and some holder is a
\* non-updater in Begin or Expand with a later deadline than the requestor,
\* acquire preempts: the requestor is bound and that holder's transaction is
\* restarted.
C3_PriorityAbort ==
    [][\A q \in Procs :
          (/\ AcquireCall(q)
           /\ AllHeld(proc[q].target)
           /\ \E h \in Holders(proc[q].target) :
                 /\ proc[h].type # Updater
                 /\ proc[h].state \in {Begin, Expand}
                 /\ Deadline(h) > Deadline(q))
          => \E e \in Range(log') :
                /\ e.kind = "acquire_pa"
                /\ e.p = q
                /\ Deadline(e.h) > Deadline(q)
                /\ \E f \in Range(log') : f.kind = "restart" /\ f.t = proc[e.h].owner
      ]_vars

\* C4: acquire restarts a holder's transaction only when the requestor's
\* deadline is strictly earlier than the holder's.
C4_NoPriorityInversion ==
    \A e \in Events : e.kind = "acquire_pa" => Deadline(e.p) < Deadline(e.h)

\* A holder h the policy protects from requestor q: a non-updater in
\* Contract or Complete, an updater holding its lock, or an equal deadline.
Protected(h, q) ==
    \/ proc[h].type # Updater /\ proc[h].state >= Contract
    \/ proc[h].type = Updater /\ proc[h].lock # NoLock
    \/ Deadline(h) = Deadline(q)

\* C5: acquire never preempts a protected holder, and when every lock is
\* held by a protected holder the requestor is enqueued on its target and no
\* transaction is aborted.
C5_PriorityBlock ==
    [][\A q \in Procs :
          (AcquireCall(q) /\ AllHeld(proc[q].target))
          => /\ \A e \in Range(log') :
                   e.kind = "acquire_pa" => ~Protected(e.h, q)
             /\ (\A h \in Holders(proc[q].target) : Protected(h, q))
                => /\ \E e \in Range(log') : e.kind = "acquire_pb" /\ e.p = q
                   /\ \E i \in 1..Len(resources'[proc[q].target].queue) :
                          resources'[proc[q].target].queue[i][2] = q
                   /\ \A e \in Range(log') : e.kind \notin {"abort", "restart", "acquire_pa"}
                   /\ proc'[q].lock = NoLock
      ]_vars

\* Reached: a requestor was enqueued behind an updater that holds its lock
\* and has the earlier deadline, the case the policy decides by the updater's
\* protection alone.
C5_Witness ==
    \E e \in Events :
        /\ e.kind = "acquire_pb"
        /\ e.p \in QueueOf(e.r)
        /\ AllHeld(e.r)
        /\ \E h \in Holders(e.r) :
               /\ proc[h].type = Updater
               /\ proc[h].lock # NoLock
               /\ Deadline(h) < Deadline(e.p)

\* C6: at every tick boundary no aborted process, and no updater of one,
\* holds a lock or waits in a queue.
C6_AbortLeavesNoTrace ==
    TickBoundary =>
        \A p \in AbortedOrUpdater : \A r \in Res :
            p \notin Holders(r) /\ p \notin QueueOf(r)

\* C7: no aborted process is still in the scheduler's heap.
C7_AbortUnschedules == \A p \in aborted : p \notin Scheduled

\* C8: once the expiry sweep of a tick has run, no live transaction has
\* clock > deadline.
C8_ExpiryComplete ==
    pc = "arrive" => \A t \in Live : clock <= tx[t].deadline

\* C9: a transaction is counted finished only with arrival <= clock <=
\* deadline and every listed process Complete; a listed process completing
\* after the deadline has its transaction counted missed, never finished.
C9_FinishedInTime ==
    /\ \A e \in Events :
          e.kind = "finish" =>
              /\ tx[e.t].arrival <= clock
              /\ clock <= tx[e.t].deadline
              /\ e.n = 0
    /\ \A e \in Events :
          (/\ e.kind = "complete"
           /\ e.n # Complete
           /\ e.p \in Range(tx[e.t].processes)
           /\ clock > tx[e.t].deadline)
          => counted[e.t] = [finished |-> 0, missed |-> 1]

\* Reached: one transaction has been counted finished, and a listed process
\* of another completes after its deadline, its transaction counted missed.
C9_Witness ==
    /\ \E t \in Txs : counted[t].finished = 1 /\ tx[t].processes # <<>>
    /\ \E e \in Events :
          /\ e.kind = "complete"
          /\ e.n # Complete
          /\ e.p \in Range(tx[e.t].processes)
          /\ clock > tx[e.t].deadline
          /\ counted[e.t].missed = 1

\* C10: at every tick boundary started = finished + missed + live, and every
\* transaction that left the live set was counted exactly once.
C10_ExactOnce ==
    TickBoundary =>
        /\ started = finished + missed + Len(transactions)
        /\ \A t \in Txs :
              counted[t].finished + counted[t].missed = (IF t \in Live THEN 0 ELSE 1)
        /\ \A i, j \in 1..Len(transactions) :
              transactions[i] = transactions[j] => i = j

\* Reached: in one sweep an updater's completion and the sweep itself both
\* reported the same expired transaction; it was counted missed once.
C10_Witness ==
    \E e, f, g \in Events :
        /\ e.kind = "miss"
        /\ f.kind = "ignored" /\ f.t = e.t
        /\ g.kind = "complete" /\ g.t = e.t /\ proc[g.p].type = Updater
        /\ counted[e.t] = [finished |-> 0, missed |-> 1]
        /\ started = finished + missed + Len(transactions)

----------------------------------------------------------------------------
\* The selection of this tick has just been made and no process ticked yet.
JustSelected == pc = "run" /\ chosen = picked

\* (deadline, arrival) of p is at most that of q.
AsUrgent(p, q) ==
    \/ Deadline(p) < Deadline(q)
    \/ Deadline(p) = Deadline(q) /\ proc[p].arrival <= proc[q].arrival

\* C11: when a non-blocking process of the heap is not selected, every
\* selected process is at least as urgent as it, by (deadline, arrival).
C11_SelectionByPriority ==
    JustSelected =>
        \A q \in Scheduled \ Range(picked) :
            ~blocking(Store, q) => \A p \in Range(picked) : AsUrgent(p, q)

----------------------------------------------------------------------------
\* After its i-th call the step that logged l left the slot of l[i] alone: no
\* preemption was taking that slot and no later release freed or passed it.
Undisturbed(l, i) ==
    \A j \in 1..Len(l) :
        l[j].r = l[i].r /\ l[j].slot = l[i].slot
        => /\ l[j].kind # "acquire_pa"
           /\ j > i => l[j].kind \notin {"free", "handoff"}

\* C12: every hand-off on release goes to the waiter with the smallest
\* (deadline, arrival) of the queue, which then is the holder of the slot.
C12_HandoffByDeadline ==
    [][\A i \in 1..Len(log') :
          log'[i].kind = "handoff"
          => /\ log'[i].n = 0
             /\ Undisturbed(log', i)
                => /\ resources'[log'[i].r].copies[log'[i].slot] = log'[i].p
                   /\ proc'[log'[i].p].lock = <<log'[i].r, log'[i].slot>>
      ]_vars

\* Reached: a lock was handed to a waiter while a waiter created before it,
\* with a later deadline, stays in the queue.
C12_Witness ==
    \E e \in Events :
        /\ e.kind = "handoff"
        /\ resources[e.r].copies[e.slot] = e.p
        /\ \E q \in QueueOf(e.r) :
              /\ Deadline(q) > Deadline(e.p)
              /\ q < e.p

----------------------------------------------------------------------------
\* C13: at every tick boundary a resource with a waiter in its queue has a
\* holder on every lock.
C13_NoIdleLock ==
    TickBoundary =>
        \A r \in Res : resources[r].queue # <<>> => AllHeld(r)

\* Reached: a release handed its lock to a waiter and another waiter is
\* still queued on the resource, all of whose locks are held.
C13_Witness ==
    /\ TickBoundary
    /\ \E e \in Events :
          /\ e.kind = "handoff"
          /\ resources[e.r].queue # <<>>
          /\ AllHeld(e.r)

\* C14: the simulator keeps an aborts counter: at every tick boundary the
\* mirror has the attribute, and the cc_aborts that run_test returns at the end
\* of the run is the number of holders preempted by acquire's abort branch.
C14_AbortsCounter ==
    /\ TickBoundary => "aborts" \in MirrorAttributes
    /\ pc = "reported" => /\ report.raised = ""
                          /\ report.cc_aborts = preemptions

\* The boundary after the k-th tick of the only transaction of a lone-writer
\* run: the tick of its arrival is its first.
AfterTick(k) ==
    /\ options = LoneWriter
    /\ TickBoundary
    /\ Len(tx) = 1
    /\ clock = tx[1].arrival + k - 1

\* C15: a lone writer of length 10 with two replicas, one CPU, spawn_time 1 and
\* write_time 2 holds the first lock in Expand with progress 1 after its tick 1;
\* is in Contract, spawning and not blocking with progress 10 after tick 10; has
\* one lockless updater and is blocking after tick 11; after tick 12 the
\* updater holds the other lock with progress 1 and every lock is held; after
\* tick 13 the updater is in Contract; after tick 14 both are Complete and
\* both locks are free.
C15_LoneWriterTimeline ==
    /\ AfterTick(1) =>
          /\ proc[1].type = Writer /\ proc[1].length = 10
          /\ proc[1].lock = <<1, 1>> /\ resources[1].copies[1] = 1
          /\ proc[1].state = Expand /\ proc[1].progress = 1
    /\ AfterTick(10) =>
          /\ proc[1].progress = 10 /\ proc[1].state = Contract
          /\ spawning(Store, 1) /\ ~blocking(Store, 1)
    /\ AfterTick(11) =>
          /\ Len(proc) = 2 /\ proc[1].updaters = <<2>>
          /\ proc[2].type = Updater /\ proc[2].lock = NoLock
          /\ blocking(Store, 1)
    /\ AfterTick(12) =>
          /\ Len(proc) = 2
          /\ proc[2].lock = <<1, 2>> /\ resources[1].copies[2] = 2
          /\ proc[2].progress = 1
          /\ AllHeld(1)
    /\ AfterTick(13) => Len(proc) = 2 /\ proc[2].state = Contract
    /\ AfterTick(14) =>
          /\ Len(proc) = 2
          /\ proc[2].state = Complete /\ proc[1].state = Complete
          /\ \A c \in Slots(1) : resources[1].copies[c] = None

C15_Witness ==
    /\ AfterTick(14)
    /\ proc[1].state = Complete
    /\ finished = 1

\* A tick boundary of a fully replicated run with a single transaction, whose
\* writer is process 1.
LoneReplicatedRun ==
    /\ options = FullyReplicated
    /\ TickBoundary
    /\ Len(tx) = 1

UpdatersOf(p) == Range(proc[p].updaters)

\* C16 (creation): once the writer has entered Contract, its 3 updaters exist.
C16_AllSpawnedAtOnce ==
    LoneReplicatedRun /\ proc[1].state >= Contract
    => Len(proc[1].updaters) = 3 /\ Cardinality(UpdatersOf(1)) = 3

\* C16 (slots): every updater that has asked for a lock and is not complete
\* holds a lock slot of the resource, and no two hold the same.
C16_DistinctSlots ==
    LoneReplicatedRun
    => /\ \A u \in UpdatersOf(1) :
             proc[u].state \in {Expand, Contract}
             => /\ proc[u].lock # NoLock
                /\ resources[proc[u].lock[1]].copies[proc[u].lock[2]] = u
       /\ \A u \in UpdatersOf(1) : \A v \in UpdatersOf(1) :
             u # v /\ proc[u].lock # NoLock => proc[u].lock # proc[v].lock

\* C16 (completion): by the end of the tick in which the last updater has
\* reached Contract, the writer is Complete.
C16_CompletesWithLastUpdater ==
    /\ LoneReplicatedRun
    /\ Len(proc[1].updaters) = 3
    /\ \A u \in UpdatersOf(1) : proc[u].state >= Contract
    => proc[1].state = Complete

\* C16: a fully replicated writer with spawn_time 0 and 4 replicas creates its
\* 3 updaters in the tick in which it enters Contract, each updater acquires a
\* lock slot of its own, and the writer is Complete in the tick in which the
\* last updater reaches Contract.
C16_FullyReplicatedWriter ==
    /\ C16_AllSpawnedAtOnce
    /\ C16_DistinctSlots
    /\ C16_CompletesWithLastUpdater

\* The run has ended.
Terminated == pc \in {"done", "reported"}

\* The arrivals the run needs have come, and the horizon of the model leaves
\* the sweep the ticks to reach each live transaction after its deadline.
ArrivalsDone ==
    /\ started >= options.sim_size
    /\ clock + Len(transactions) <= Horizon
    /\ \A t \in Range(transactions) :
          tx[t].deadline + Len(transactions) <= Horizon

\* C17: the run terminates.  Once sim_size transactions have arrived, the loop
\* of start_sim reaches finished + missed >= sim_size and stops; and no
\* transaction stays live and uncounted: it has left the list of live
\* transactions a bounded number of ticks after its deadline.
C17_Termination ==
    /\ ArrivalsDone ~> Terminated
    /\ [](\A t \in Range(transactions) : clock < tx[t].deadline + started)

C17_Witness ==
    /\ pc = "done"
    /\ finished + missed >= options.sim_size
    /\ finished > 0 /\ missed > 0
    /\ started >= options.sim_size

\* C18: complete() is never invoked on a process that is already Complete:
\* every call made during a step finds its process in an earlier state.
C18_NoDoubleCompletion ==
    \A e \in Events : e.kind = "complete" => e.n # Complete

\* C19: remove_job(p) removes only p: when a call has taken the entry of
\* another process out of the heap, a process that was not Complete and in the
\* current list of a live transaction, and that process is still so after the
\* step, then it is still in the heap.
C19_RemovesOnlyItself ==
    \A e \in Events :
        /\ e.kind = "unschedule" /\ e.h # e.p /\ e.n = 1
        /\ proc[e.h].state # Complete
        /\ proc[e.h].owner \in Range(transactions)
        /\ e.h \in Range(tx[proc[e.h].owner].processes)
        => e.h \in Scheduled

\* C20: every lock held on behalf of a transaction is released no later than
\* the tick in which the transaction is counted finished or missed: between
\* two ticks the holder of a lock belongs to a transaction that is still live.
C20_LocksReleasedWhenCounted ==
    TickBoundary =>
        \A r \in Res : \A c \in Slots(r) :
            resources[r].copies[c] # None
            => proc[resources[r].copies[c]].owner \in Live

\* The step about to be taken ticks the writer w, which is in Contract with
\* its updaters spawned and none of them below Contract: its tick calls
\* complete().
WriterCommits(w) ==
    /\ pc = "run" /\ chosen # <<>> /\ Head(chosen) = w
    /\ proc[w].type = Writer
    /\ proc[w].state = Contract
    /\ ~spawning(Store, w)
    /\ \A u \in UpdatersOf(w) : proc[u].state >= Contract

\* C21: a write is fully replicated when it commits: when a writer's tick
\* calls complete(), every lock slot of its target resource is held by the
\* writer or by one of its updaters, no two slots by the same process.
C21_ReplicatedAtCommit ==
    \A w \in Procs :
        WriterCommits(w) =>
            /\ \A c \in Slots(proc[w].target) :
                  resources[proc[w].target].copies[c] \in {w} \cup UpdatersOf(w)
            /\ \A c \in Slots(proc[w].target) : \A d \in Slots(proc[w].target) :
                  c # d => resources[proc[w].target].copies[c]
                           # resources[proc[w].target].copies[d]

\* This step is the tick of the writer w and takes it to Complete.
CompletesByTick(w) ==
    /\ pc = "run" /\ chosen # <<>> /\ Head(chosen) = w
    /\ proc[w].type = Writer
    /\ proc[w].state # Complete
    /\ proc'[w].state = Complete

\* C22: writer/updater discipline.  Between two ticks a writer has at most
\* replicas - 1 updaters, and a writer that is Complete has only updaters that
\* are Complete; a writer is taken to Complete by its own tick only when it
\* has exactly replicas - 1 updaters, each in Contract or later.
C22_WriterDiscipline ==
    /\ [](TickBoundary =>
             \A w \in Procs :
                 proc[w].type = Writer
                 => Len(proc[w].updaters) <= options.replicas - 1)
    /\ [](\A w \in Procs :
             proc[w].type = Writer /\ proc[w].state = Complete
             => \A u \in UpdatersOf(w) : proc[u].state = Complete)
    /\ [][\A w \in Procs :
             CompletesByTick(w)
             => /\ Len(proc[w].updaters) = options.replicas - 1
                /\ \A u \in UpdatersOf(w) : proc[u].state >= Contract]_vars

C22_Witness ==
    \E e \in Events :
        /\ e.kind = "complete" /\ e.n = Contract
        /\ proc[e.p].type = Writer /\ proc[e.p].state = Complete
        /\ Len(proc[e.p].updaters) = options.replicas - 1
        /\ options.replicas > 1
        /\ \A u \in UpdatersOf(e.p) : proc[u].state = Complete

\* The number of entries of p in the wait queue of r.
RECURSIVE EntriesOf(_, _, _)
EntriesOf(p, r, i) ==
    IF i > Len(resources[r].queue) THEN 0
    ELSE (IF resources[r].queue[i][2] = p THEN 1 ELSE 0) + EntriesOf(p, r, i + 1)

\* p is in the current list of a live transaction, or an updater of such a
\* process.
Current(p) ==
    /\ proc[p].owner \in Live
    /\ \/ p \in Range(tx[proc[p].owner].processes)
       \/ \E w \in Range(tx[proc[p].owner].processes) : p \in UpdatersOf(w)

Restarted(t) == \E e \in Range(log') : e.kind = "restart" /\ e.t = t

\* The processes created in this step.
Created == (Len(proc) + 1)..Len(proc')

\* C24: restart() leaves the deadline, the arrival and the dependencies of
\* the transaction unchanged.  With the clock at or before the deadline the
\* transaction is left with exactly one new process per dependency, each in
\* Begin with progress 0, no lock and no updaters; with the clock past the
\* deadline it is left without processes and nothing is spawned for it, so
\* that a transaction counted as missed never gets new processes.
C24_RestartFrame ==
    [][\A t \in 1..Len(tx) :
          /\ Restarted(t) =>
                /\ tx'[t].deadline = tx[t].deadline
                /\ tx'[t].arrival = tx[t].arrival
                /\ tx'[t].dependencies = tx[t].dependencies
                /\ IF clock <= tx[t].deadline
                   THEN /\ Len(tx'[t].processes) = Len(tx[t].dependencies)
                        /\ \A i \in 1..Len(tx'[t].processes) :
                              /\ tx'[t].processes[i] \in Created
                              /\ proc'[tx'[t].processes[i]].owner = t
                              /\ proc'[tx'[t].processes[i]].target = tx[t].dependencies[i]
                              /\ proc'[tx'[t].processes[i]].state = Begin
                              /\ proc'[tx'[t].processes[i]].progress = 0
                              /\ proc'[tx'[t].processes[i]].lock = NoLock
                              /\ proc'[tx'[t].processes[i]].updaters = <<>>
                              /\ \A k \in 1..(i - 1) :
                                    tx'[t].processes[k] # tx'[t].processes[i]
                   ELSE /\ tx'[t].processes = <<>>
                        /\ \A p \in Created : proc'[p].owner # t
          /\ counted[t].missed > 0 =>
                Range(tx'[t].processes) \subseteq Range(tx[t].processes)
      ]_vars

\* Reached: a transaction that was counted as missed has been restarted after
\* its deadline, because a process it left holding a lock was preempted, and
\* has no processes.
C24_Witness ==
    \E e \in Events :
        /\ e.kind = "restart"
        /\ clock > tx[e.t].deadline
        /\ counted[e.t].missed > 0
        /\ tx[e.t].processes = <<>>


\* The processes and the heap as the step leaves them: what pick_processes
\* reads when the step is the arrival coin.
Selecting == [options |-> options', proc |-> proc', processes |-> processes']

\* n: the heap entries whose process is not blocking.
NonBlocking(s) ==
    Cardinality({i \in 1..Len(s.processes) : ~blocking(s, s.processes[i][2])})

\* C25: work-conserving selection.  The selection of a tick holds exactly
\* min(cpu_count, n) processes, n being the number of heap entries whose
\* process is not blocking when the selection is made; each selected process
\* is in the heap and not blocking at that time; the processes ticked in the
\* tick are those selected, each once; and the idle counter is incremented in
\* a tick exactly when n is 0.
C25_WorkConserving ==
    /\ [][pc = "arrive" =>
            /\ Len(picked') = Min(options.cpu_count, NonBlocking(Selecting))
            /\ \A i \in 1..Len(picked') :
                  /\ \E k \in 1..Len(processes') : processes'[k][2] = picked'[i]
                  /\ ~blocking(Selecting, picked'[i])
                  /\ \A k \in 1..(i - 1) : picked'[k] # picked'[i]
            /\ chosen' = picked'
            /\ badtick' = IF NonBlocking(Selecting) = 0 THEN badtick + 1 ELSE badtick
       ]_vars
    /\ [][pc = "run" =>
            /\ chosen # <<>>
            /\ chosen' = Tail(chosen)
            /\ picked' = picked
            /\ badtick' = badtick
            /\ pc' = IF chosen' = <<>> THEN "tick" ELSE "run"
       ]_vars
    /\ [][pc \notin {"arrive", "run"} => badtick' = badtick]_vars

\* Reached: a selection was cut to cpu_count, with more processes of the heap
\* not blocking than there are CPUs.
C25_Witness ==
    /\ JustSelected
    /\ NonBlocking(Store) > options.cpu_count
    /\ Len(picked) = options.cpu_count


\* C26: when the loop of start_sim has exited, finished + missed is exactly
\* sim_size, so that finished / sim_size and missed / sim_size are fractions
\* between 0 and 1 that sum to 1.
C26_ExactCount ==
    pc \in {"done", "reported"} =>
        /\ finished + missed = options.sim_size
        /\ finished <= options.sim_size
        /\ missed <= options.sim_size


\* The expected length of the processes ps, with their types read in q: for
\* each access_time, and write_time for a writer.
ExpectedWork(q, ps) ==
    SumSeq([i \in 1..Len(ps) |->
               options.access_time
               + (IF q[ps[i]].type = Writer THEN options.write_time ELSE 0)],
           Len(ps))

\* p drew buffered_time as its length.
Buffered(p) ==
    proc[p].length =
        options.buffered_time
        + (IF proc[p].type = Writer THEN options.write_time ELSE 0)

\* C27: the deadline formula.  A transaction leaves begin with deadline =
\* arrival + deadline_slack * (sum over the processes just created of
\* access_time, plus write_time for a writer), whatever lengths the processes
\* drew; no later step (abort, restart, commit or any other) changes the
\* deadline or the arrival of a transaction.
C27_DeadlineFormula ==
    /\ [][\A t \in (Len(tx) + 1)..Len(tx') :
             /\ tx'[t].arrival = clock
             /\ tx'[t].processes # <<>>
             /\ tx'[t].deadline =
                    tx'[t].arrival
                    + options.deadline_slack * ExpectedWork(proc', tx'[t].processes)
       ]_vars
    /\ [][\A t \in 1..Len(tx) :
             /\ tx'[t].deadline = tx[t].deadline
             /\ tx'[t].arrival = tx[t].arrival
       ]_vars

\* Reached: a transaction has just begun with a process that drew
\* buffered_time, shorter than access_time, and its deadline counts
\* access_time for it.
C27_Witness ==
    /\ JustSelected
    /\ options.buffered_time < options.access_time
    /\ \E t \in Live :
          /\ tx[t].arrival = clock
          /\ \E p \in Range(tx[t].processes) : Buffered(p)
          /\ tx[t].deadline =
                 tx[t].arrival
                 + options.deadline_slack * ExpectedWork(proc, tx[t].processes)

====
